---- MODULE Spec2Model ----
(***************************************************************************)
(* TLS listener with a pluggable certificate resolver.                     *)
(*                                                                         *)
(*   core/lib/src/listener/tls.rs   TlsBindable::bind, TlsListener::accept,*)
(*                                  TlsListener::connect                   *)
(*   core/lib/src/tls/resolver.rs   Resolver, SniResolver, UpdatingResolver*)
(*                                                                         *)
(* Every connection is one task.  connect is cut at its await points and   *)
(* UpdatingResolver::resolve at each access to shared state (the file, the *)
(* AtomicU64, the ArcSwap), so that concurrent handshakes interleave.      *)
(***************************************************************************)
EXTENDS Integers, Sequences, FiniteSets, TLC

\* ---------------------------------------------------------------- bounds
\* Number of connections (tasks) the inner listener hands out.
MaxConns == 2
\* The certificate file's modification time is counted in ticks; the last
\* tick a rewrite may carry.
MaxTick == 4
\* Ticks in one second: Duration::as_secs drops the sub-second part.
TicksPerSec == 2
\* Resolve calls one task makes, one connection after another (SpecSeq).
MaxCalls == 3

Conns == 1..MaxConns

\* ---------------------------------------------------------------- values
\* Option<Arc<ServerConfig>>: a configuration is named by where it was built
\* from (src) and, for a configuration built from the certificate file, by the
\* modification time (in ticks) of the file content it was built from.
NoneCfg == [src |-> "none", n |-> 0]
DefaultCfg == [src |-> "default", n |-> 0]
SniCfg(i) == [src |-> "sni", n |-> i]
FileCfg(m) == [src |-> "file", n |-> m]
BytesCfg == [src |-> "bytes", n |-> 0]

\* ClientHello::server_name(): None, or the name the client sent.
NoSni == "<none>"
ServerNames == {NoSni, "", "api.rocket.rs", "API.rocket.rs", "other.rocket.rs"}

\* What the raw connection carries for phase 1: a complete ClientHello, bytes
\* that are no TLS record, or a transport failure while reading.
Streams == {"hello", "garbage", "reset"}

VARIABLES
    \* TlsBindable::bind / TlsListener
    lstate,         \* "unbound", "bound", "error"
    bindErr,        \* "none", "config" (to_server_config), "bind" (Error::Bind)
    resolver,       \* TlsListener.resolver: "None", "Sni", "Updating"
    default,        \* TlsListener.default
    \* the certificate file named by UpdatingResolver.tls_config
    certs,          \* tls_config.certs(): "path" (Either::Left) or "bytes"
    mtime,          \* modification time of the file, in ticks
    fileValid,      \* whether to_server_config succeeds on the current content
    \* UpdatingResolver
    timestamp,      \* AtomicU64
    server_config,  \* ArcSwap<ServerConfig>
    \* one task per connection
    pc,             \* where the task stands
    stream,         \* what the raw connection carries
    hello,          \* handshake.client_hello().server_name()
    ts,             \* local `timestamp` of resolve (seconds)
    old_timestamp,  \* local `old_timestamp` of resolve
    new_config,     \* local `new_config` of resolve
    ret,            \* value returned by Resolver::resolve
    config,         \* local `config` of connect
    tls_stream,     \* configuration the TlsStream was finalized with
    \* history
    events,         \* per connection: "p1", "call", "ret", "p2" in order
    obs,            \* per resolve call: what it saw when it began
    swapped,        \* per resolve call: its store changed the slot's content
    overlap,        \* per resolve call: the calls it ran beside
    rebuildFailed,  \* some resolve call has had its rebuild fail
    slot0,          \* per handshake in progress: the slot when connect began
    calls,          \* resolve calls of the UpdatingResolver so far
    rebuilds        \* rebuilds run with the file as it was at construction

lvars == <<lstate, bindErr, resolver, default, certs>>
fvars == <<mtime, fileValid>>
rvars == <<timestamp, server_config>>
cvars == <<pc, stream, hello, ts, old_timestamp, new_config, ret, config, tls_stream>>
hvars == <<events, obs, swapped, overlap, rebuildFailed, slot0, calls, rebuilds>>
vars == <<lvars, fvars, rvars, cvars, hvars>>

\* ---------------------------------------------------------------- helpers
\* modtime.duration_since(UNIX_EPOCH).ok()?.as_secs()
as_secs(m) == m \div TicksPerSec

\* Mutant: the None of the resolver is taken as the configuration.
unwrap_or_none(r, d) == r

\* Option::unwrap_or_else(|| self.default.clone())
unwrap_or_else(r, d) == IF r = NoneCfg THEN d ELSE r

\* Host names compare without regard to case.
Lower(name) == IF name = "API.rocket.rs" THEN "api.rocket.rs" ELSE name

\* Host::parse(name).ok(): the empty name is no host.
HostParse(name) == IF name = "" THEN "<err>" ELSE Lower(name)

\* SniResolver.sni_map
sni_map == [h \in {"api.rocket.rs", "blob.rocket.rs"} |->
              IF h = "api.rocket.rs" THEN SniCfg(1) ELSE SniCfg(2)]

\* Mutant: a name the map does not hold gets the map's first configuration.
SniResolveFirst(name) ==
    IF name = NoSni THEN NoneCfg
    ELSE IF HostParse(name) = "<err>" THEN NoneCfg
    ELSE IF HostParse(name) \in DOMAIN sni_map THEN sni_map[HostParse(name)]
    ELSE SniCfg(1)

\* SniResolver::resolve
SniResolve(name) ==
    IF name = NoSni THEN NoneCfg
    ELSE IF HostParse(name) = "<err>" THEN NoneCfg
    ELSE IF HostParse(name) \in DOMAIN sni_map THEN sni_map[HostParse(name)]
    ELSE NoneCfg

\* pc values inside UpdatingResolver::resolve
InResolve == {"stat", "load", "rebuild", "store_config", "store_timestamp", "load_full"}

\* slot: the content in the slot; due: the slot held the content the stored
\* timestamp was taken from, the file was newer and valid, and has not been
\* rewritten since; afterFail: a rebuild had failed before.
NoObs == [slot |-> -1, due |-> FALSE, afterFail |-> FALSE]

\* ---------------------------------------------------------------- Init
Init ==
    /\ lstate = "unbound"
    /\ bindErr = "none"
    /\ resolver = "None"
    /\ default = NoneCfg
    /\ certs = "path"
    /\ mtime = TicksPerSec
    /\ fileValid \in BOOLEAN
    /\ timestamp = 0
    /\ server_config = NoneCfg
    /\ pc = [c \in Conns |-> "idle"]
    /\ stream = [c \in Conns |-> "none"]
    /\ hello = [c \in Conns |-> NoSni]
    /\ ts = [c \in Conns |-> 0]
    /\ old_timestamp = [c \in Conns |-> 0]
    /\ new_config = [c \in Conns |-> NoneCfg]
    /\ ret = [c \in Conns |-> NoneCfg]
    /\ config = [c \in Conns |-> NoneCfg]
    /\ tls_stream = [c \in Conns |-> NoneCfg]
    /\ events = [c \in Conns |-> <<>>]
    /\ obs = [c \in Conns |-> NoObs]
    /\ swapped = [c \in Conns |-> FALSE]
    /\ overlap = [c \in Conns |-> {}]
    /\ rebuildFailed = FALSE
    /\ slot0 = [c \in Conns |-> NoneCfg]
    /\ calls = 0
    /\ rebuilds = 0

\* ---------------------------------------------------------------- bind
\* Mutant: a listener is made although the inner bind failed.
BindDespiteInner(tlsOk, innerOk) ==
    /\ lstate = "unbound"
    /\ IF ~tlsOk
         THEN /\ lstate' = "error"
              /\ bindErr' = "config"
              /\ UNCHANGED <<resolver, default>>
         ELSE /\ lstate' = "bound"
              /\ bindErr' = IF innerOk THEN "none" ELSE "bind"
              /\ resolver' = "None"
              /\ default' = DefaultCfg
    /\ UNCHANGED <<certs, fvars, rvars, cvars, hvars>>

\* TlsBindable::bind.  The fields of the struct literal are evaluated in the
\* order written: to_server_config()? first, then self.inner.bind().
Bind(tlsOk, innerOk) ==
    /\ lstate = "unbound"
    /\ IF ~tlsOk
         THEN /\ lstate' = "error"
              /\ bindErr' = "config"
              /\ UNCHANGED <<resolver, default>>
         ELSE IF ~innerOk
           THEN /\ lstate' = "error"
                /\ bindErr' = "bind"
                /\ UNCHANGED <<resolver, default>>
           ELSE /\ lstate' = "bound"
                /\ bindErr' = "none"
                /\ resolver' = "None"
                /\ default' = DefaultCfg
    /\ UNCHANGED <<certs, fvars, rvars, cvars, hvars>>

\* UpdatingResolver::try_from: the configuration the slot starts with, or
\* NoneCfg when to_server_config()? fails.
try_from(kind) ==
    IF ~fileValid THEN NoneCfg
    ELSE IF kind = "path" THEN FileCfg(mtime) ELSE BytesCfg

\* The server's start-up gives the listener its resolver before the first
\* accept: an SniResolver, or an UpdatingResolver made by try_from.
Install(r, kind) ==
    /\ lstate = "bound"
    /\ resolver = "None"
    /\ \A c \in Conns : pc[c] = "idle"
    /\ r \in {"Sni", "Updating"}
    /\ IF r = "Updating"
         THEN /\ try_from(kind) # NoneCfg
              /\ certs' = kind
              /\ timestamp' = 0
              /\ server_config' = try_from(kind)
         ELSE /\ kind = "path"
              /\ UNCHANGED <<certs, timestamp, server_config>>
    /\ resolver' = r
    /\ UNCHANGED <<lstate, bindErr, default, fvars, cvars, hvars>>

\* The certificate file is rewritten: its modification time advances, and the
\* new content is one to_server_config accepts or not.
Rewrite(dt, valid) ==
    /\ resolver = "Updating"
    /\ certs = "path"
    /\ mtime + dt <= MaxTick
    /\ mtime' = mtime + dt
    /\ fileValid' = valid
    /\ obs' = [c \in Conns |-> [obs[c] EXCEPT !.due = FALSE]]
    /\ UNCHANGED <<lvars, rvars, cvars, events, swapped, overlap,
                   rebuildFailed, slot0, calls, rebuilds>>

\* ---------------------------------------------------------------- accept
\* TlsListener::accept: self.listener.accept().await.  Connections are
\* numbered in the order the inner listener hands them out; an Err of the
\* inner listener changes nothing.
Accept(c, s, name) ==
    /\ lstate = "bound"
    /\ pc[c] = "idle"
    /\ \A d \in Conns : d < c => pc[d] # "idle"
    /\ s \in Streams
    /\ name \in ServerNames
    /\ s # "hello" => name = NoSni
    /\ pc' = [pc EXCEPT ![c] = "accepted"]
    /\ stream' = [stream EXCEPT ![c] = s]
    /\ hello' = [hello EXCEPT ![c] = name]
    /\ UNCHANGED <<lvars, fvars, rvars, ts, old_timestamp, new_config, ret,
                   config, tls_stream, hvars>>

\* ---------------------------------------------------------------- connect
\* Mutant: phase 1 goes on whatever the connection carried.
Phase1NoCheck(c) ==
    /\ pc[c] = "accepted"
    /\ pc' = [pc EXCEPT ![c] = "hello"]
    /\ events' = [events EXCEPT ![c] = Append(@, "p1")]
    /\ slot0' = [slot0 EXCEPT ![c] = server_config]
    /\ UNCHANGED <<lvars, fvars, rvars, stream, hello, ts, old_timestamp,
                   new_config, ret, config, tls_stream, obs, swapped, overlap,
                   rebuildFailed, calls, rebuilds>>

\* Mutant: a failed phase 1 takes the listener's default away.
Phase1Poison(c) ==
    /\ pc[c] = "accepted"
    /\ IF stream[c] = "hello"
         THEN /\ pc' = [pc EXCEPT ![c] = "hello"]
              /\ events' = [events EXCEPT ![c] = Append(@, "p1")]
              /\ slot0' = [slot0 EXCEPT ![c] = server_config]
              /\ UNCHANGED default
         ELSE /\ pc' = [pc EXCEPT ![c] = "failed1"]
              /\ default' = NoneCfg
              /\ UNCHANGED <<events, slot0>>
    /\ UNCHANGED <<lstate, bindErr, resolver, certs, fvars, rvars, stream, hello,
                   ts, old_timestamp, new_config, ret, config, tls_stream, obs,
                   swapped, overlap, rebuildFailed, calls, rebuilds>>

\* let handshake = acceptor.await?;   (phase 1)
Phase1(c) ==
    /\ pc[c] = "accepted"
    /\ IF stream[c] = "hello"
         THEN /\ pc' = [pc EXCEPT ![c] = "hello"]
              /\ events' = [events EXCEPT ![c] = Append(@, "p1")]
              /\ slot0' = [slot0 EXCEPT ![c] = server_config]
         ELSE /\ pc' = [pc EXCEPT ![c] = "failed1"]
              /\ UNCHANGED <<events, slot0>>
    /\ UNCHANGED <<lvars, fvars, rvars, stream, hello, ts, old_timestamp,
                   new_config, ret, config, tls_stream, obs, swapped, overlap,
                   rebuildFailed, calls, rebuilds>>

\* Mutant: a listener without a resolver looks the server name up all the same.
ResolveNoneLooksUp(c) ==
    /\ pc[c] = "hello"
    /\ resolver = "None"
    /\ config' = [config EXCEPT ![c] = unwrap_or_else(SniResolve(hello[c]), default)]
    /\ pc' = [pc EXCEPT ![c] = "into_stream"]
    /\ UNCHANGED <<lvars, fvars, rvars, stream, hello, ts, old_timestamp,
                   new_config, ret, tls_stream, hvars>>

\* None => self.default.clone()
ResolveNone(c) ==
    /\ pc[c] = "hello"
    /\ resolver = "None"
    /\ config' = [config EXCEPT ![c] = default]
    /\ pc' = [pc EXCEPT ![c] = "into_stream"]
    /\ UNCHANGED <<lvars, fvars, rvars, stream, hello, ts, old_timestamp,
                   new_config, ret, tls_stream, hvars>>

\* Resolver::resolve returns r to connect (its locals `timestamp` and
\* `old_timestamp` are gone; new_config stays as the record of what it built):
\* r.resolve(hello).await.unwrap_or_else(|| self.default.clone())
Return(c, r) ==
    /\ ret' = [ret EXCEPT ![c] = r]
    /\ ts' = [ts EXCEPT ![c] = 0]
    /\ old_timestamp' = [old_timestamp EXCEPT ![c] = 0]
    /\ config' = [config EXCEPT ![c] = unwrap_or_else(r, default)]
    /\ pc' = [pc EXCEPT ![c] = "into_stream"]

\* Mutant: connect asks the resolver twice.
ResolveSniTwice(c) ==
    /\ pc[c] = "hello"
    /\ resolver = "Sni"
    /\ Return(c, SniResolve(hello[c]))
    /\ events' = [events EXCEPT ![c] = @ \o <<"call", "ret", "call", "ret">>]
    /\ UNCHANGED <<lvars, fvars, rvars, stream, hello,
                   new_config, tls_stream, obs, swapped, overlap, rebuildFailed, slot0, calls, rebuilds>>

\* Some(r) => ..., r an SniResolver: resolve has no await and reads only the
\* immutable map.
ResolveSni(c) ==
    /\ pc[c] = "hello"
    /\ resolver = "Sni"
    /\ Return(c, SniResolve(hello[c]))
    /\ events' = [events EXCEPT ![c] = @ \o <<"call", "ret">>]
    /\ UNCHANGED <<lvars, fvars, rvars, stream, hello,
                   new_config, tls_stream, obs, swapped, overlap, rebuildFailed, slot0, calls, rebuilds>>

\* The resolve calls in flight once c has entered.
InFlight(c) == {d \in Conns : pc[d] \in InResolve} \cup {c}

\* Mutant: resolve stats and compares whatever the certificate source is.
ResolveUpdatingStatsAlways(c) ==
    /\ pc[c] = "hello"
    /\ resolver = "Updating"
    /\ pc' = [pc EXCEPT ![c] = "stat"]
    /\ events' = [events EXCEPT ![c] = Append(@, "call")]
    /\ obs' = [obs EXCEPT ![c] = [slot |-> server_config.n,
                                  due |-> /\ certs = "path"
                                          /\ timestamp = as_secs(server_config.n)
                                          /\ mtime > server_config.n
                                          /\ fileValid,
                                  afterFail |-> rebuildFailed]]
    /\ overlap' = [d \in Conns |->
                     IF d = c THEN InFlight(c)
                     ELSE IF pc[d] \in InResolve THEN overlap[d] \cup {c}
                     ELSE overlap[d]]
    /\ hello' = [hello EXCEPT ![c] = NoSni]
    /\ calls' = calls + 1
    /\ UNCHANGED <<lvars, fvars, rvars, stream, ts, old_timestamp,
                   new_config, ret, config, tls_stream, swapped, rebuildFailed, slot0, rebuilds>>

\* Some(r) => ..., r an UpdatingResolver: resolve(&self, _: ClientHello<'_>)
\* is entered and drops the hello unread;
\* if let Either::Left(path) = self.tls_config.certs()
ResolveUpdating(c) ==
    /\ pc[c] = "hello"
    /\ resolver = "Updating"
    /\ pc' = [pc EXCEPT ![c] = IF certs = "path" THEN "stat" ELSE "load_full"]
    /\ events' = [events EXCEPT ![c] = Append(@, "call")]
    /\ obs' = [obs EXCEPT ![c] = [slot |-> server_config.n,
                                  due |-> /\ certs = "path"
                                          /\ timestamp = as_secs(server_config.n)
                                          /\ mtime > server_config.n
                                          /\ fileValid,
                                  afterFail |-> rebuildFailed]]
    /\ overlap' = [d \in Conns |->
                     IF d = c THEN InFlight(c)
                     ELSE IF pc[d] \in InResolve THEN overlap[d] \cup {c}
                     ELSE overlap[d]]
    /\ hello' = [hello EXCEPT ![c] = NoSni]
    /\ calls' = calls + 1
    /\ UNCHANGED <<lvars, fvars, rvars, stream, ts, old_timestamp,
                   new_config, ret, config, tls_stream, swapped, rebuildFailed, slot0, rebuilds>>

\* let metadata = tokio::fs::metadata(&path).await.ok()?;
\* let modtime = metadata.modified().ok()?;
\* let timestamp = modtime.duration_since(UNIX_EPOCH).ok()?.as_secs();
Stat(c, ok) ==
    /\ pc[c] = "stat"
    /\ IF ok
         THEN /\ ts' = [ts EXCEPT ![c] = as_secs(mtime)]
              /\ pc' = [pc EXCEPT ![c] = "load"]
              /\ UNCHANGED <<old_timestamp, ret, config, events>>
         ELSE /\ Return(c, NoneCfg)
              /\ events' = [events EXCEPT ![c] = Append(@, "ret")]
    /\ UNCHANGED <<lvars, fvars, rvars, stream, hello,
                   new_config, tls_stream, obs, swapped, overlap, rebuildFailed, slot0, calls, rebuilds>>

\* Mutant: the file is rebuilt also when it is no newer than the timestamp.
LoadGe(c) ==
    /\ pc[c] = "load"
    /\ old_timestamp' = [old_timestamp EXCEPT ![c] = timestamp]
    /\ pc' = [pc EXCEPT ![c] = IF ts[c] >= timestamp THEN "rebuild" ELSE "load_full"]
    /\ UNCHANGED <<lvars, fvars, rvars, stream, hello, ts, new_config, ret,
                   config, tls_stream, hvars>>

\* let old_timestamp = self.timestamp.load(Ordering::Acquire);
\* if timestamp > old_timestamp {
Load(c) ==
    /\ pc[c] = "load"
    /\ old_timestamp' = [old_timestamp EXCEPT ![c] = timestamp]
    /\ pc' = [pc EXCEPT ![c] = IF ts[c] > timestamp THEN "rebuild" ELSE "load_full"]
    /\ UNCHANGED <<lvars, fvars, rvars, stream, hello, ts, new_config, ret,
                   config, tls_stream, hvars>>

\* let new_config = self.tls_config.to_server_config().ok()?;
\* The file is read when the configuration is built, not when it was stat'ed.
Rebuild(c) ==
    /\ pc[c] = "rebuild"
    /\ rebuilds' = IF mtime = TicksPerSec THEN rebuilds + 1 ELSE rebuilds
    /\ IF fileValid
         THEN /\ new_config' = [new_config EXCEPT ![c] = FileCfg(mtime)]
              /\ pc' = [pc EXCEPT ![c] = "store_config"]
              /\ UNCHANGED <<ts, old_timestamp, ret, config, events, rebuildFailed>>
         ELSE /\ Return(c, NoneCfg)
              /\ events' = [events EXCEPT ![c] = Append(@, "ret")]
              /\ rebuildFailed' = TRUE
              /\ UNCHANGED new_config
    /\ UNCHANGED <<lvars, fvars, rvars, stream, hello,
                   tls_stream, obs, swapped, overlap, slot0, calls>>

\* Mutant: the rebuilt configuration is not put in the slot.
StoreConfigSkipped(c) ==
    /\ pc[c] = "store_config"
    /\ pc' = [pc EXCEPT ![c] = "store_timestamp"]
    /\ UNCHANGED <<lvars, fvars, rvars, stream, hello, ts, old_timestamp,
                   new_config, ret, config, tls_stream, hvars>>

\* self.server_config.store(Arc::new(new_config));
StoreConfig(c) ==
    /\ pc[c] = "store_config"
    /\ server_config' = new_config[c]
    /\ swapped' = [swapped EXCEPT ![c] = (server_config # new_config[c])]
    /\ pc' = [pc EXCEPT ![c] = "store_timestamp"]
    /\ UNCHANGED <<lvars, fvars, timestamp, stream, hello, ts, old_timestamp,
                   new_config, ret, config, tls_stream, events, obs, overlap,
                   rebuildFailed, slot0, calls, rebuilds>>

\* self.timestamp.store(timestamp, Ordering::Release);
StoreTimestamp(c) ==
    /\ pc[c] = "store_timestamp"
    /\ timestamp' = ts[c]
    /\ pc' = [pc EXCEPT ![c] = "load_full"]
    /\ UNCHANGED <<lvars, fvars, server_config, stream, hello, ts,
                   old_timestamp, new_config, ret, config, tls_stream, hvars>>

\* Mutant: the reader takes the slot's content field by field, the second
\* from what the file now holds.
LoadFullTorn(c) ==
    /\ pc[c] = "load_full"
    /\ Return(c, [server_config EXCEPT !.n = mtime])
    /\ events' = [events EXCEPT ![c] = Append(@, "ret")]
    /\ UNCHANGED <<lvars, fvars, rvars, stream, hello,
                   new_config, tls_stream, obs, swapped, overlap, rebuildFailed, slot0, calls, rebuilds>>

\* Some(self.server_config.load_full())
LoadFull(c) ==
    /\ pc[c] = "load_full"
    /\ Return(c, server_config)
    /\ events' = [events EXCEPT ![c] = Append(@, "ret")]
    /\ UNCHANGED <<lvars, fvars, rvars, stream, hello,
                   new_config, tls_stream, obs, swapped, overlap, rebuildFailed, slot0, calls, rebuilds>>

\* Mutant: a failed phase 2 puts back in the slot what it held when connect
\* began.
IntoStreamRollback(c, ok) ==
    /\ pc[c] = "into_stream"
    /\ events' = [events EXCEPT ![c] = Append(@, "p2")]
    /\ IF ok
         THEN /\ tls_stream' = [tls_stream EXCEPT ![c] = config[c]]
              /\ pc' = [pc EXCEPT ![c] = "established"]
              /\ UNCHANGED server_config
         ELSE /\ pc' = [pc EXCEPT ![c] = "failed2"]
              /\ server_config' = slot0[c]
              /\ UNCHANGED tls_stream
    /\ new_config' = [new_config EXCEPT ![c] = NoneCfg]
    /\ obs' = [obs EXCEPT ![c] = NoObs]
    /\ swapped' = [swapped EXCEPT ![c] = FALSE]
    /\ overlap' = [overlap EXCEPT ![c] = {}]
    /\ slot0' = [slot0 EXCEPT ![c] = NoneCfg]
    /\ UNCHANGED <<lvars, fvars, timestamp, stream, hello, ts, old_timestamp,
                   ret, config, rebuildFailed, calls, rebuilds>>

\* Mutant: a handshake whose phase 2 failed starts over.
IntoStreamRetry(c, ok) ==
    /\ pc[c] = "into_stream"
    /\ events' = [events EXCEPT ![c] = Append(@, "p2")]
    /\ IF ok
         THEN /\ tls_stream' = [tls_stream EXCEPT ![c] = config[c]]
              /\ pc' = [pc EXCEPT ![c] = "established"]
         ELSE /\ pc' = [pc EXCEPT ![c] = "accepted"]
              /\ UNCHANGED tls_stream
    /\ new_config' = [new_config EXCEPT ![c] = NoneCfg]
    /\ obs' = [obs EXCEPT ![c] = NoObs]
    /\ swapped' = [swapped EXCEPT ![c] = FALSE]
    /\ overlap' = [overlap EXCEPT ![c] = {}]
    /\ slot0' = [slot0 EXCEPT ![c] = NoneCfg]
    /\ UNCHANGED <<lvars, fvars, rvars, stream, hello, ts, old_timestamp,
                   ret, config, rebuildFailed, calls, rebuilds>>

\* Mutant: phase 2 is given the listener's default, not `config`.
IntoStreamDefault(c, ok) ==
    /\ pc[c] = "into_stream"
    /\ events' = [events EXCEPT ![c] = Append(@, "p2")]
    /\ IF ok
         THEN /\ tls_stream' = [tls_stream EXCEPT ![c] = default]
              /\ pc' = [pc EXCEPT ![c] = "established"]
         ELSE /\ pc' = [pc EXCEPT ![c] = "failed2"]
              /\ UNCHANGED tls_stream
    /\ new_config' = [new_config EXCEPT ![c] = NoneCfg]
    /\ obs' = [obs EXCEPT ![c] = NoObs]
    /\ swapped' = [swapped EXCEPT ![c] = FALSE]
    /\ overlap' = [overlap EXCEPT ![c] = {}]
    /\ slot0' = [slot0 EXCEPT ![c] = NoneCfg]
    /\ UNCHANGED <<lvars, fvars, rvars, stream, hello, ts, old_timestamp,
                   ret, config, rebuildFailed, calls, rebuilds>>

\* handshake.into_stream(config).await   (phase 2).  connect returns: what
\* is recorded of its resolve call, beyond the value it returned, ends here.
IntoStream(c, ok) ==
    /\ pc[c] = "into_stream"
    /\ events' = [events EXCEPT ![c] = Append(@, "p2")]
    /\ IF ok
         THEN /\ tls_stream' = [tls_stream EXCEPT ![c] = config[c]]
              /\ pc' = [pc EXCEPT ![c] = "established"]
         ELSE /\ pc' = [pc EXCEPT ![c] = "failed2"]
              /\ UNCHANGED tls_stream
    /\ new_config' = [new_config EXCEPT ![c] = NoneCfg]
    /\ obs' = [obs EXCEPT ![c] = NoObs]
    /\ swapped' = [swapped EXCEPT ![c] = FALSE]
    /\ overlap' = [overlap EXCEPT ![c] = {}]
    /\ slot0' = [slot0 EXCEPT ![c] = NoneCfg]
    /\ UNCHANGED <<lvars, fvars, rvars, stream, hello, ts, old_timestamp,
                   ret, config, rebuildFailed, calls, rebuilds>>

\* The task of a finished handshake takes the next connection: connect's
\* locals are dropped, the listener and the resolver stay as they are.
Recycle(c) ==
    /\ pc[c] \in {"established", "failed1", "failed2"}
    /\ calls < MaxCalls
    /\ pc' = [pc EXCEPT ![c] = "idle"]
    /\ stream' = [stream EXCEPT ![c] = "hello"]
    /\ hello' = [hello EXCEPT ![c] = NoSni]
    /\ ret' = [ret EXCEPT ![c] = NoneCfg]
    /\ config' = [config EXCEPT ![c] = NoneCfg]
    /\ tls_stream' = [tls_stream EXCEPT ![c] = NoneCfg]
    /\ events' = [events EXCEPT ![c] = <<>>]
    /\ UNCHANGED <<lvars, fvars, rvars, ts, old_timestamp, new_config, obs,
                   swapped, overlap, rebuildFailed, slot0, calls, rebuilds>>

\* ---------------------------------------------------------------- Next
Next ==
    \/ \E tlsOk, innerOk \in BOOLEAN : Bind(tlsOk, innerOk)
    \/ \E r \in {"Sni", "Updating"}, kind \in {"path", "bytes"} : Install(r, kind)
    \/ \E dt \in 1..TicksPerSec, valid \in BOOLEAN : Rewrite(dt, valid)
    \/ \E c \in Conns, s \in Streams, name \in ServerNames : Accept(c, s, name)
    \/ \E c \in Conns : Phase1(c)
    \/ \E c \in Conns : ResolveNone(c)
    \/ \E c \in Conns : ResolveSni(c)
    \/ \E c \in Conns : ResolveUpdating(c)
    \/ \E c \in Conns, ok \in BOOLEAN : Stat(c, ok)
    \/ \E c \in Conns : Load(c)
    \/ \E c \in Conns : Rebuild(c)
    \/ \E c \in Conns : StoreConfig(c)
    \/ \E c \in Conns : StoreTimestamp(c)
    \/ \E c \in Conns : LoadFull(c)
    \/ \E c \in Conns, ok \in BOOLEAN : IntoStream(c, ok)

Spec == Init /\ [][Next]_vars

\* One task serving its connections one after another: no two connect calls,
\* and so no two resolve calls, run beside each other.
NextSeq ==
    \/ \E tlsOk, innerOk \in BOOLEAN : Bind(tlsOk, innerOk)
    \/ \E r \in {"Sni", "Updating"}, kind \in {"path", "bytes"} : Install(r, kind)
    \/ \E dt \in 1..TicksPerSec, valid \in BOOLEAN : Rewrite(dt, valid)
    \/ \E s \in Streams, name \in ServerNames : Accept(1, s, name)
    \/ Phase1(1)
    \/ ResolveNone(1)
    \/ ResolveSni(1)
    \/ ResolveUpdating(1)
    \/ \E ok \in BOOLEAN : Stat(1, ok)
    \/ Load(1)
    \/ Rebuild(1)
    \/ StoreConfig(1)
    \/ StoreTimestamp(1)
    \/ LoadFull(1)
    \/ \E ok \in BOOLEAN : IntoStream(1, ok)
    \/ Recycle(1)

SpecSeq == Init /\ [][NextSeq]_vars

\* ================================================================ claims
\* Resolution is over for connection c: connect holds its `config`.
Resolved(c) == pc[c] \in {"into_stream", "established", "failed2"}

\* ---------------------------------------------------------------- C1
\* C1: once the UpdatingResolver is constructed, every resolve call returns
\* Some configuration, also when the stat or the rebuild fails.
C1_AlwaysSome ==
    \A c \in Conns :
        (resolver = "Updating" /\ Resolved(c)) => ret[c] # NoneCfg

\* ---------------------------------------------------------------- C2
\* C2: the stored timestamp never decreases, whatever the interleaving of
\* concurrent resolve calls.
C2_TimestampMonotone == [][timestamp' >= timestamp]_vars

\* ---------------------------------------------------------------- C3
\* C3: once the slot holds a configuration built from the file content of
\* modification time t, it never afterwards holds one built from older
\* content.
C3_SlotMonotone ==
    [][(server_config.src = "file" /\ server_config'.src = "file")
          => server_config'.n >= server_config.n]_vars

\* ---------------------------------------------------------------- C4
\* C4: the file was observed with time t0 (the slot holds the t0 content and
\* the stored timestamp is t0's) and has been rewritten with valid content of
\* time t1 > t0: a resolve call that begins then, and during which the file
\* is not rewritten again, returns the configuration built from the t1
\* content.
C4_FreshAfterRewrite ==
    \A c \in Conns :
        (pc[c] = "into_stream" /\ obs[c].due) => ret[c] = FileCfg(mtime)

\* ---------------------------------------------------------------- C5
\* Two resolve calls that ran beside each other and beside no other call, both
\* having found the slot stale and both having rebuilt the same newer content.
BothRebuilt(a, b) ==
    /\ a # b
    /\ pc[a] = "into_stream" /\ pc[b] = "into_stream"
    /\ overlap[a] = {a, b} /\ overlap[b] = {a, b}
    /\ new_config[a] # NoneCfg /\ new_config[b] = new_config[a]
    /\ obs[a].slot < new_config[a].n /\ obs[b].slot < new_config[b].n

\* C5: in that scenario exactly one of the two stores changed the content of
\* the slot, and both calls returned the configuration of the newer content.
C5_OneSwapBothNew ==
    \A a, b \in Conns :
        BothRebuilt(a, b) =>
            /\ swapped[a] # swapped[b]
            /\ ret[a] = new_config[a]
            /\ ret[b] = new_config[a]

C5_Witness ==
    \E a, b \in Conns : BothRebuilt(a, b) /\ swapped[a] /\ ret[b] = new_config[a]

\* ---------------------------------------------------------------- C6
\* C6: a resolve call whose rebuild fails leaves the slot and the stored
\* timestamp as they were, and a resolve call that begins after such a failure
\* is served the configuration in the slot, the last one built.
C6_LastGoodServed ==
    [][\A c \in Conns :
         /\ (pc[c] = "rebuild" /\ pc'[c] = "into_stream")
              => (server_config' = server_config /\ timestamp' = timestamp)
         /\ (pc[c] \in InResolve /\ pc'[c] = "into_stream" /\ obs[c].afterFail)
              => ret'[c] = server_config']_vars

\* ---------------------------------------------------------------- C7
\* The events of a handshake that is past resolution, without its "p2".
BeforePhase2(c) == SubSeq(events[c], 1, Len(events[c]) - (IF pc[c] = "into_stream" THEN 0 ELSE 1))

\* C7 as claimed: in every handshake whose phase 1 succeeded, phase 1, one
\* invocation of the resolver, its return and phase 2 follow in this order.
C7_ResolverOncePerHandshake ==
    \A c \in Conns :
        Resolved(c) => BeforePhase2(c) = <<"p1", "call", "ret">>

\* What connect has done, by where it stands, on a listener with a resolver
\* (invoked once) and on one without (never invoked).
ExpectedEvents(c) ==
    LET res == IF resolver = "None" THEN <<"p1">> ELSE <<"p1", "call", "ret">>
    IN  CASE pc[c] \in {"idle", "accepted", "failed1"} -> <<>>
          [] pc[c] = "hello" -> <<"p1">>
          [] pc[c] \in InResolve -> <<"p1", "call">>
          [] pc[c] = "into_stream" -> res
          [] OTHER -> Append(res, "p2")

\* C7 (amended): phase 1 completes before resolution and resolution before
\* phase 2, no phase is skipped or reordered; the resolver is invoked exactly
\* once per handshake whose phase 1 succeeded when the listener has a
\* resolver, and not at all when it has none (the default is taken).
C7_PhaseOrder ==
    \A c \in Conns : events[c] = ExpectedEvents(c)

C7_Witness ==
    \E c \in Conns :
        /\ resolver = "Updating"
        /\ pc[c] = "established"
        /\ events[c] = <<"p1", "call", "ret", "p2">>

\* ---------------------------------------------------------------- C8
\* C8: a connection whose first bytes are no TLS record, or whose transport
\* fails in phase 1, fails at phase 1: the resolver is not invoked and phase 2
\* is not entered.
C8_Phase1Failure ==
    \A c \in Conns :
        stream[c] \in {"garbage", "reset"} =>
            /\ pc[c] \in {"accepted", "failed1"}
            /\ events[c] = <<>>
            /\ ret[c] = NoneCfg /\ config[c] = NoneCfg /\ tls_stream[c] = NoneCfg

C8_Witness ==
    \E c, d \in Conns :
        /\ resolver = "Sni"
        /\ stream[c] = "garbage" /\ pc[c] = "failed1"
        /\ stream[d] = "reset" /\ pc[d] = "failed1"

\* ---------------------------------------------------------------- C9
\* C9: with no resolver, or with a resolver that returned None, connect
\* enters phase 2 with the listener's default configuration; the handshake is
\* not rejected for it.
C9_FallbackDefault ==
    \A c \in Conns :
        (/\ stream[c] = "hello"
         /\ pc[c] \notin {"accepted", "hello"} \cup InResolve
         /\ (resolver = "None" \/ ret[c] = NoneCfg))
        => /\ Resolved(c)
           /\ config[c] = default
           /\ default = DefaultCfg
           /\ pc[c] = "failed2" => events[c][Len(events[c])] = "p2"
           /\ pc[c] = "established" => tls_stream[c] = DefaultCfg

C9_Witness ==
    \E c, d \in Conns :
        /\ resolver = "Sni"
        /\ hello[c] = "other.rocket.rs" /\ pc[c] = "established"
        /\ ret[c] = NoneCfg /\ tls_stream[c] = DefaultCfg
        /\ hello[d] = NoSni /\ pc[d] = "established"
        /\ ret[d] = NoneCfg /\ tls_stream[d] = DefaultCfg

\* ---------------------------------------------------------------- C10
\* C10: a handshake in which the resolver selected a configuration and the
\* key exchange completed was finalized with exactly that configuration.
C10_SelectedConfigUsed ==
    \A c \in Conns :
        (pc[c] = "established" /\ ret[c] # NoneCfg) => tls_stream[c] = ret[c]

C10_Witness ==
    \E c, d \in Conns :
        /\ resolver = "Sni"
        /\ pc[c] = "established" /\ hello[c] = "api.rocket.rs"
        /\ tls_stream[c] = SniCfg(1)
        /\ pc[d] = "established" /\ tls_stream[d] = DefaultCfg

\* ---------------------------------------------------------------- C11
\* C11 as claimed: when a handshake fails, in phase 1 or in phase 2, the slot
\* holds what it held when that handshake began.
C11_SlotAsBefore ==
    [][\A c \in Conns :
         /\ (pc[c] = "accepted" /\ pc'[c] = "failed1")
              => server_config' = server_config
         /\ (pc[c] = "into_stream" /\ pc'[c] = "failed2")
              => server_config' = slot0[c]]_vars

\* C11 (amended): the failure of a handshake changes no shared state: the
\* step in which phase 1 or phase 2 fails leaves the slot and the stored
\* timestamp as they are, and the slot only ever changes by a resolve call
\* storing the configuration it has rebuilt; a reload done by the resolve call
\* of a handshake that then fails in phase 2 stays.
C11_FailureChangesNothing ==
    [][/\ \A c \in Conns :
            (pc'[c] \in {"failed1", "failed2"} /\ pc[c] # pc'[c])
                => (server_config' = server_config /\ timestamp' = timestamp)
       /\ (server_config' # server_config /\ resolver = "Updating")
            => \E c \in Conns : /\ pc[c] = "store_config"
                                 /\ new_config[c].src = "file"
                                 /\ server_config' = new_config[c]]_vars

C11_Witness ==
    \E c \in Conns :
        /\ resolver = "Updating"
        /\ pc[c] = "failed2"
        /\ ret[c] = server_config
        /\ server_config.src = "file" /\ server_config.n > TicksPerSec

\* ---------------------------------------------------------------- C12
\* C12: the SniResolver returns, for a hello that names a host of the map,
\* the configuration mapped to that host (host names compare without regard
\* to case), and None for a hello with no name, with a name that is no host,
\* or with a host the map does not hold.
C12_SniLookup ==
    \A c \in Conns :
        (resolver = "Sni" /\ Resolved(c)) =>
            /\ \A h \in DOMAIN sni_map :
                 (hello[c] = h \/ Lower(hello[c]) = h) => ret[c] = sni_map[h]
            /\ hello[c] \in {NoSni, ""} => ret[c] = NoneCfg
            /\ Lower(hello[c]) \notin DOMAIN sni_map => ret[c] = NoneCfg

C12_Witness ==
    \E c, d \in Conns :
        /\ resolver = "Sni"
        /\ Resolved(c) /\ hello[c] = "api.rocket.rs" /\ ret[c] = SniCfg(1)
        /\ Resolved(d) /\ hello[d] \in {"", "other.rocket.rs"} /\ ret[d] = NoneCfg

Stage(p) ==
    CASE p = "idle" -> "Start"
      [] p = "accepted" -> "AwaitingHello"
      [] p \in {"hello"} \cup InResolve -> "ClientHelloParsed"
      [] p = "into_stream" -> "Finalizing"
      [] p = "established" -> "Established"
      [] p \in {"failed1", "failed2"} -> "Failed"

\* The transitions of the handshake state machine.
StageOrder ==
    { <<"Start", "AwaitingHello">>,
      <<"AwaitingHello", "ClientHelloParsed">>, <<"AwaitingHello", "Failed">>,
      <<"ClientHelloParsed", "Finalizing">>,
      <<"Finalizing", "Established">>, <<"Finalizing", "Failed">> }

\* C14: a handshake moves Start -> AwaitingHello -> ClientHelloParsed ->
\* Finalizing -> Established or Failed and no other way; Established and Failed
\* are terminal (nothing of the handshake changes after them, so a failed
\* handshake is not resumed); connect has returned a connection exactly when
\* the handshake is Established, which it reaches only through a phase 1 that
\* read a ClientHello and a phase 2 that succeeded.
C14_StateMachine ==
    /\ [](\A c \in Conns :
            /\ tls_stream[c] # NoneCfg <=> pc[c] = "established"
            /\ pc[c] = "established" =>
                  /\ stream[c] = "hello"
                  /\ Head(events[c]) = "p1"
                  /\ events[c][Len(events[c])] = "p2")
    /\ [][\A c \in Conns :
            /\ Stage(pc[c]) # Stage(pc'[c])
                  => <<Stage(pc[c]), Stage(pc'[c])>> \in StageOrder
            /\ Stage(pc[c]) \in {"Established", "Failed"}
                  => /\ pc'[c] = pc[c]
                     /\ tls_stream'[c] = tls_stream[c]
                     /\ config'[c] = config[c]
                     /\ events'[c] = events[c]]_vars

\* One handshake is established and another has failed in phase 2.
C14_Witness ==
    \E c, d \in Conns :
        /\ pc[c] = "established" /\ tls_stream[c] = config[c]
        /\ pc[d] = "failed2" /\ tls_stream[d] = NoneCfg

\* ---------------------------------------------------------------- C15
\* The locals of connection c's connect call.
Locals(c) ==
    <<pc[c], stream[c], hello[c], ts[c], old_timestamp[c], new_config[c],
      ret[c], config[c], tls_stream[c]>>

\* C15: no step of accept or connect changes the listener (its default, its
\* resolver, the TLS configuration the resolver was made from), so the default
\* is the one bind built for as long as the listener lives; and the step in
\* which a handshake fails changes nothing but that handshake: the listener,
\* the resolver's slot and timestamp and every other connection are as before.
C15_ListenerUntouched ==
    /\ [](lstate = "bound" => default = DefaultCfg)
    /\ [][/\ pc' # pc => lvars' = lvars
          /\ \A c \in Conns :
                (pc'[c] \in {"failed1", "failed2"} /\ pc'[c] # pc[c]) =>
                    /\ lvars' = lvars
                    /\ rvars' = rvars
                    /\ \A d \in Conns \ {c} : Locals(d)' = Locals(d)]_vars

\* The first connection failed in phase 1 and the second is established with
\* the default bind built.
C15_Witness ==
    \E c, d \in Conns :
        /\ c < d
        /\ pc[c] = "failed1"
        /\ pc[d] = "established"
        /\ resolver = "None"
        /\ tls_stream[d] = DefaultCfg /\ default = DefaultCfg

\* ---------------------------------------------------------------- C16
\* C16: bind ends in an error and no listener when to_server_config fails
\* (bindErr "config") or the inner bind fails (bindErr "bind", Error::Bind):
\* there is then no default and no connection is ever accepted; it ends in a
\* listener only when neither failed, and that listener's default is the
\* configuration built from the TlsConfig given to bind.
C16_BindErrors ==
    /\ lstate = "unbound" => (bindErr = "none" /\ default = NoneCfg)
    /\ lstate = "error" =>
          /\ bindErr \in {"config", "bind"}
          /\ default = NoneCfg
          /\ resolver = "None"
    /\ lstate = "bound" => (bindErr = "none" /\ default = DefaultCfg)
    /\ lstate # "bound" => \A c \in Conns : pc[c] = "idle"

\* bind has failed in the inner bind, after the configuration was built.
C16_Witness ==
    /\ lstate = "error"
    /\ bindErr = "bind"
    /\ default = NoneCfg

\* ---------------------------------------------------------------- C17
\* The configurations to_server_config can have built whole: from the bytes,
\* or from the file as it was at one modification time.
Snapshots == {BytesCfg} \cup {FileCfg(m) : m \in TicksPerSec..MaxTick}

\* C17: under every interleaving of resolve calls, the slot holds one whole
\* configuration (the one try_from built or the result of one successful
\* rebuild, stored in one step), every configuration a resolve call returns
\* is the slot's whole content at the instant of its load_full, and a reader
\* at load_full can always take that step, whatever the writers are doing.
C17_WholeSnapshots ==
    /\ [](resolver = "Updating" =>
            /\ server_config \in Snapshots
            /\ \A c \in Conns :
                 /\ (Resolved(c) /\ ret[c] # NoneCfg) => ret[c] \in Snapshots
                 /\ pc[c] = "load_full" => ENABLED LoadFull(c))
    /\ [][resolver = "Updating" =>
            /\ \A c \in Conns :
                 /\ (pc[c] = "load_full" /\ pc'[c] # pc[c])
                       => ret'[c] = server_config
                 /\ (pc[c] = "rebuild" /\ pc'[c] = "store_config")
                       => (fileValid /\ new_config'[c] = FileCfg(mtime))
            /\ server_config' # server_config
                  => \E c \in Conns : /\ pc[c] = "store_config"
                                       /\ server_config' = new_config[c]
                                       /\ new_config[c] \in Snapshots]_vars

\* A reader has its configuration from load_full while a writer that has
\* rebuilt a newer one is about to store it: the reader holds the whole older
\* configuration.
C17_Witness ==
    \E c, d \in Conns :
        /\ resolver = "Updating"
        /\ pc[c] = "into_stream" /\ ret[c] = server_config
        /\ pc[d] = "store_config"
        /\ new_config[d] \in Snapshots /\ new_config[d] # ret[c]
        /\ d \in overlap[c]

\* ---------------------------------------------------------------- C18
\* C18: the stored timestamp never runs ahead of the slot: whenever no resolve
\* call is in progress, the configuration in the slot was built from file
\* content whose modification time, in whole seconds, is at least the stored
\* timestamp; this under every interleaving of concurrent resolve calls.
C18_TimestampNotAhead ==
    (/\ resolver = "Updating"
     /\ certs = "path"
     /\ \A c \in Conns : pc[c] \notin InResolve)
        => as_secs(server_config.n) >= timestamp

\* ---------------------------------------------------------------- C19
\* C19: the listener bind returns has no resolver, and no step of accept or
\* connect gives it one; for as long as it has none, every established
\* handshake was finalized with the default bind built, whatever server name
\* the client sent, and no resolve call was made or returned anything.
C19_NoResolverAfterBind ==
    /\ [](resolver = "None" =>
            \A c \in Conns :
                /\ "call" \notin {events[c][k] : k \in DOMAIN events[c]}
                /\ ret[c] = NoneCfg
                /\ pc[c] \notin InResolve
                /\ Resolved(c) => config[c] = DefaultCfg
                /\ pc[c] = "established" => tls_stream[c] = DefaultCfg)
    /\ [][/\ (lstate = "unbound" /\ lstate' = "bound") => resolver' = "None"
          /\ pc' # pc => resolver' = resolver]_vars

\* A handshake that named a host is established, with the default, on a
\* listener that is as bind made it.
C19_Witness ==
    \E c \in Conns :
        /\ resolver = "None"
        /\ pc[c] = "established"
        /\ hello[c] = "api.rocket.rs"
        /\ tls_stream[c] = DefaultCfg
        /\ events[c] = <<"p1", "p2">>

\* ---------------------------------------------------------------- C20
\* C20: with the certificates given as bytes, resolve neither stats nor
\* rebuilds: the slot keeps the configuration try_from built, the stored
\* timestamp stays 0, and every resolve call returns that configuration.
C20_BytesNeverReload ==
    (resolver = "Updating" /\ certs = "bytes") =>
        /\ timestamp = 0
        /\ server_config = BytesCfg
        /\ rebuilds = 0
        /\ \A c \in Conns :
             /\ pc[c] \notin (InResolve \ {"load_full"})
             /\ new_config[c] = NoneCfg
             /\ Resolved(c) => ret[c] = BytesCfg

\* Two resolve calls on a resolver made from bytes have returned.
C20_Witness ==
    /\ resolver = "Updating" /\ certs = "bytes"
    /\ calls = 2
    /\ \A c \in {1, 2} : pc[c] = "into_stream" /\ ret[c] = BytesCfg

====
